---- MODULE Spec2Model ----
(***************************************************************************)
(* Model of PicoHumidityTemperatureRead (src/src/main.rs): one ingestion   *)
(* run.  The client loads config.json, connects to the database and        *)
(* prepares the insert statement, packs the local clock into 6 bytes,      *)
(* connects to the Pico, writes the clock packet, reads a 4-byte           *)
(* little-endian count,                                                    *)
(* reads 8-byte little-endian packed measurements until read_exact reports *)
(* UnexpectedEof, shuts the connection down and inserts the decoded        *)
(* measurements into the database one by one.                              *)
(*                                                                         *)
(* Bytes are naturals 0..255.  A u64 is a function 0..63 -> {0,1} (bit 0   *)
(* is the least significant bit), because the values do not fit the        *)
(* model checker's integers; u8 and u16 arithmetic is done modulo 2^8 and  *)
(* 2^16.                                                                   *)
(***************************************************************************)
EXTENDS Integers, Sequences, FiniteSets, TLC

VARIABLES
    pc,                 \* position of main()
    now,                \* Local::now(): calendar fields of the local clock
    zone,               \* the local time zone of the host
    closes,             \* the Pico closes the stream after the last byte of wire
    packed_now,         \* the 6-byte clock packet
    written,            \* bytes the Pico has received from the client
    wire,               \* every byte the Pico sends before it closes the stream
    inbound,            \* the bytes of wire not yet consumed by the client
    measurement_count,  \* the declared count
    packed_measurement, \* the u64 just read
    measurements,       \* Vec<Measurement>
    inserted,           \* rows the sink has accepted, in order
    exit,               \* "running", "SUCCESS", "FAILURE" (Ok(ExitCode)) or "Err"
    err,                \* which stage failed ("none" while there is no failure)
    log                 \* the device and sink I/O steps performed so far, in order

vars == <<pc, now, zone, closes, packed_now, written, wire, inbound, measurement_count,
          packed_measurement, measurements, inserted, exit, err, log>>

-----------------------------------------------------------------------------
(* Bounds of the model.                                                    *)

\* The Pico sends at most this many complete records before closing.
MaxRecords == 3

\* February 30 is sent for every year below this (a full Gregorian cycle) and for
\* some later years up to 65535.
FebruaryYears == 400

-----------------------------------------------------------------------------
(* Fixed-width integer arithmetic.                                         *)

Pow2(n) == 2 ^ n

\* bit i of the natural x
Bit(x, i) == (x \div Pow2(i)) % 2

RECURSIVE OrBits(_, _, _)
OrBits(a, b, i) ==
    IF i < 0 THEN 0
    ELSE (IF Bit(a, i) = 1 \/ Bit(b, i) = 1 THEN Pow2(i) ELSE 0) + OrBits(a, b, i - 1)

RECURSIVE AndBits(_, _, _)
AndBits(a, b, i) ==
    IF i < 0 THEN 0
    ELSE (IF Bit(a, i) = 1 /\ Bit(b, i) = 1 THEN Pow2(i) ELSE 0) + AndBits(a, b, i - 1)

\* `x as u8`, `x as u16`
AsU8(x) == x % 256
AsU16(x) == x % 65536

\* u8 operators: |, &, <<, >>
Or8(a, b) == OrBits(a, b, 7)
And8(a, b) == AndBits(a, b, 7)
Shl8(a, n) == (a * Pow2(n)) % 256
Shr8(a, n) == a \div Pow2(n)

\* u16 operators: <<, >>
Shl16(a, n) == (a * Pow2(n)) % 65536
Shr16(a, n) == a \div Pow2(n)

-----------------------------------------------------------------------------
(* Calendar (chrono).                                                      *)

IsLeapYear(y) == y % 4 = 0 /\ (y % 100 # 0 \/ y % 400 = 0)

DaysInMonth(y, m) ==
    IF m = 2 THEN (IF IsLeapYear(y) THEN 29 ELSE 28)
    ELSE IF m \in {4, 6, 9, 11} THEN 30
    ELSE 31

\* NaiveDate::from_ymd_opt(y, m, d) is Some: every year 0..65535 is within
\* chrono's year range, so only month and day decide.
ValidYmd(y, m, d) == m \in 1..12 /\ d \in 1..DaysInMonth(y, m)

\* from_hms_opt with every limit one too low
ValidHmsOffByOne(h, mi, s) == h < 23 /\ mi < 59 /\ s < 59

\* NaiveTime::from_hms_opt(h, mi, s) is Some
ValidHms(h, mi, s) == h < 24 /\ mi < 60 /\ s < 60

RECURSIVE DaysBeforeMonth(_, _)
DaysBeforeMonth(y, m) ==
    IF m <= 1 THEN 0 ELSE DaysInMonth(y, m - 1) + DaysBeforeMonth(y, m - 1)

\* days from 0000-01-01 (proleptic Gregorian, year 0 is a leap year) to y-m-d
DayNumber(y, m, d) ==
    365 * y + ((y + 3) \div 4) - ((y + 99) \div 100) + ((y + 399) \div 400)
    + DaysBeforeMonth(y, m) + (d - 1)

\* Weekday::number_from_sunday(): 1 = Sunday .. 7 = Saturday (0000-01-01 is a Saturday)
NumberFromSunday(y, m, d) == ((DayNumber(y, m, d) + 6) % 7) + 1

-----------------------------------------------------------------------------
(* The clock packet, main.rs lines 72-83.                                  *)

\* PackNow with the day shifted by 3 instead of 4
PackNowDayShift3(t) ==
    LET weekday == NumberFromSunday(t.year, t.month, t.day)
    IN << Or8(And8(AsU8(t.second), 63), Shl8(AsU8(t.minute), 6)),
          Or8(And8(Shr8(AsU8(t.minute), 2), 15), Shl8(AsU8(t.hour), 4)),
          Or8(Or8(And8(Shr8(AsU8(t.hour), 4), 1), Shl8(AsU8(weekday) - 1, 1)),
              Shl8(AsU8(t.day - 1), 3)),
          Or8(Or8(And8(Shr8(AsU8(t.day - 1), 4), 1),
                  Shl8(And8(AsU8(t.month - 1), 15), 1)),
              Shl8(AsU8(t.year), 5)),
          AsU8(Shr16(AsU16(t.year), 3)),
          AsU8(Shl16(AsU16(t.year), 11)) >>

PackNow(t) ==
    LET second  == t.second
        minute  == t.minute
        hour    == t.hour
        day0    == t.day - 1
        month0  == t.month - 1
        year    == t.year
        weekday == NumberFromSunday(t.year, t.month, t.day)
    IN << Or8(And8(AsU8(second), 63), Shl8(AsU8(minute), 6)),
          Or8(And8(Shr8(AsU8(minute), 2), 15), Shl8(AsU8(hour), 4)),
          Or8(Or8(And8(Shr8(AsU8(hour), 4), 1), Shl8(AsU8(weekday) - 1, 1)),
              Shl8(AsU8(day0), 4)),
          Or8(Or8(And8(Shr8(AsU8(day0), 4), 1), Shl8(And8(AsU8(month0), 15), 1)),
              Shl8(AsU8(year), 5)),
          AsU8(Shr16(AsU16(year), 3)),
          AsU8(Shl16(AsU16(year), 11)) >>

-----------------------------------------------------------------------------
(* u64 values as bit functions.                                            *)

U64 == [0..63 -> {0, 1}]

\* AsyncReadExt::read_u64_le: 8 bytes, least significant byte first
U64FromLeBytes(bytes) == [i \in 0..63 |-> Bit(bytes[(i \div 8) + 1], i % 8)]

\* a literal below 2^31 as a u64
Lit64(n) == [i \in 0..63 |-> IF i < 31 THEN Bit(n, i) ELSE 0]

\* u64 operators: >>, &
Shr64(w, n) == [i \in 0..63 |-> IF i + n <= 63 THEN w[i + n] ELSE 0]
And64(w, m) == [i \in 0..63 |-> w[i] * m[i]]

RECURSIVE LowBits(_, _)
LowBits(w, i) == IF i < 0 THEN 0 ELSE w[i] * Pow2(i) + LowBits(w, i - 1)

\* `w as i32`: the low 32 bits, two's complement
AsI32(w) == IF w[31] = 1 THEN LowBits(w, 30) - 2147483647 - 1 ELSE LowBits(w, 30)

\* `(w + 1) as u32` for a w below 2^31 - 1 (every use is masked to 5 bits or fewer)
Succ64AsU32(w) == LowBits(w, 30) + 1

\* `w as u32` for a w below 2^31 (every use is masked to 6 bits or fewer)
AsU32(w) == LowBits(w, 30)

\* u32::from_le_bytes of AsyncReadExt::read_u32_le.  The counts the model's Pico
\* declares have a most significant byte below 128, so the value is below 2^31.
U32FromLeBytes(bytes) ==
    bytes[1] + 256 * bytes[2] + 65536 * bytes[3] + 16777216 * bytes[4]

SECTOR_COUNT == 512
PAGES_PER_SECTOR == 16
MEASUREMENTS_PER_PAGE == 32

\* the check with >= in place of >
CountReachesMaximum(count) ==
    count >= SECTOR_COUNT * PAGES_PER_SECTOR * MEASUREMENTS_PER_PAGE

\* main.rs line 103: measurement_count > SECTOR_COUNT * PAGES_PER_SECTOR * MEASUREMENTS_PER_PAGE
CountExceedsMaximum(count) ==
    count > SECTOR_COUNT * PAGES_PER_SECTOR * MEASUREMENTS_PER_PAGE

-----------------------------------------------------------------------------
(* The local time zone (chrono::Local).                                    *)

\* The zone is the value of TZ on the host.  "UTC" has no transitions.  EuRule is
\* a zone given by a rule alone, which chrono applies to every year: summer time
\* starts at 02:00 local time on the last Sunday of March (the clock jumps to
\* 03:00) and ends at 03:00 on the last Sunday of October (the clock falls back to
\* 02:00).
EuRule == "CET-1CEST,M3.5.0,M10.5.0/3"

Zones == {"UTC", EuRule}

SecondsOfDay(t) == t.hour * 3600 + t.minute * 60 + t.second

LastSunday(y, m, d) == NumberFromSunday(y, m, d) = 1 /\ d + 7 > DaysInMonth(y, m)

\* Local.from_local_datetime: LocalResult::{Single, Ambiguous, None}.  The gap is
\* open at both ends (02:00:00 and 03:00:00 exist), the fold is closed at both
\* ends (02:00:00 and 03:00:00 are both ambiguous).
FromLocalDatetime(z, t) ==
    IF /\ z = EuRule /\ t.month = 3 /\ LastSunday(t.year, 3, t.day)
       /\ SecondsOfDay(t) > 7200 /\ SecondsOfDay(t) < 10800
    THEN "None"
    ELSE IF /\ z = EuRule /\ t.month = 10 /\ LastSunday(t.year, 10, t.day)
            /\ SecondsOfDay(t) >= 7200 /\ SecondsOfDay(t) <= 10800
         THEN "Ambiguous"
    ELSE "Single"

-----------------------------------------------------------------------------
(* Decoding one packed measurement, main.rs lines 123-148.                 *)

NoTime == [year |-> 0, month |-> 0, day |-> 0, hour |-> 0, minute |-> 0, second |-> 0]
NoMeasurement == [time |-> NoTime, temp |-> 0, humidity |-> 0]

\* the month without the + 1; the temperature shifted by 41 instead of 42
MonthOfRaw(w)      == AsU32(And64(Shr64(w, 22), Lit64(15)))
TempOfShift41(w)   == AsI32(And64(Shr64(w, 41), Lit64(511)))

\* the humidity masked to 13 bits (up to bit 63); the temperature taken as a
\* signed 9-bit value
HumidityOfWide(w)  == AsI32(And64(Shr64(w, 51), Lit64(8191)))
TempOfSigned(w) ==
    LET v == AsI32(And64(Shr64(w, 42), Lit64(511)))
    IN IF v >= 256 THEN v - 512 ELSE v

\* line 125 .. line 133, lines 146-147: the fields of the packed measurement
YearOf(w)     == AsI32(And64(Shr64(w, 26), Lit64(65535)))
MonthOf(w)    == Succ64AsU32(And64(Shr64(w, 22), Lit64(15)))
DayOf(w)      == Succ64AsU32(And64(Shr64(w, 17), Lit64(31)))
HourOf(w)     == AsU32(And64(Shr64(w, 12), Lit64(31)))
MinuteOf(w)   == AsU32(And64(Shr64(w, 6), Lit64(63)))
SecondOf(w)   == AsU32(And64(w, Lit64(63)))
TempOf(w)     == AsI32(And64(Shr64(w, 42), Lit64(511)))
HumidityOf(w) == AsI32(And64(Shr64(w, 51), Lit64(1023)))

\* Decode with the time of day validated before the date
DecodeTimeFirst(z, w) ==
    LET naive    == [year |-> YearOf(w), month |-> MonthOf(w), day |-> DayOf(w),
                     hour |-> HourOf(w), minute |-> MinuteOf(w), second |-> SecondOf(w)]
    IN IF ~ValidHms(naive.hour, naive.minute, naive.second)
         THEN [kind |-> "InvalidTime", m |-> NoMeasurement]
       ELSE IF ~ValidYmd(naive.year, naive.month, naive.day)
         THEN [kind |-> "InvalidDate", m |-> NoMeasurement]
       ELSE IF FromLocalDatetime(z, naive) = "Ambiguous"
         THEN [kind |-> "AmbiguousTime", m |-> NoMeasurement]
       ELSE IF FromLocalDatetime(z, naive) = "None"
         THEN [kind |-> "ImpossibleTime", m |-> NoMeasurement]
       ELSE [kind |-> "Ok",
             m |-> [time |-> naive, temp |-> TempOf(w), humidity |-> HumidityOf(w)]]

Decode(z, w) ==
    LET naive    == [year |-> YearOf(w), month |-> MonthOf(w), day |-> DayOf(w),
                     hour |-> HourOf(w), minute |-> MinuteOf(w), second |-> SecondOf(w)]
    IN IF ~ValidYmd(naive.year, naive.month, naive.day)
         THEN [kind |-> "InvalidDate", m |-> NoMeasurement]
       ELSE IF ~ValidHms(naive.hour, naive.minute, naive.second)
         THEN [kind |-> "InvalidTime", m |-> NoMeasurement]
       ELSE IF FromLocalDatetime(z, naive) = "Ambiguous"
         THEN [kind |-> "AmbiguousTime", m |-> NoMeasurement]
       ELSE IF FromLocalDatetime(z, naive) = "None"
         THEN [kind |-> "ImpossibleTime", m |-> NoMeasurement]
       ELSE [kind |-> "Ok",
             m |-> [time |-> naive, temp |-> TempOf(w), humidity |-> HumidityOf(w)]]

DecodeErrors == {"InvalidDate", "InvalidTime", "AmbiguousTime", "ImpossibleTime"}

-----------------------------------------------------------------------------
(* The Pico: what it puts on the wire.                                     *)

\* bit i of the 64-bit record the device builds from the raw fields f
RecordBit(f, i) ==
    IF i <= 5 THEN Bit(f.second, i)
    ELSE IF i <= 11 THEN Bit(f.minute, i - 6)
    ELSE IF i <= 16 THEN Bit(f.hour, i - 12)
    ELSE IF i <= 21 THEN Bit(f.day0, i - 17)
    ELSE IF i <= 25 THEN Bit(f.month0, i - 22)
    ELSE IF i <= 41 THEN Bit(f.year, i - 26)
    ELSE IF i <= 50 THEN Bit(f.temp, i - 42)
    ELSE IF i <= 60 THEN Bit(f.humidity, i - 51)
    ELSE Bit(f.top, i - 61)

RECURSIVE RecordByte(_, _, _)
RecordByte(f, j, k) ==
    IF k < 0 THEN 0 ELSE RecordBit(f, 8 * j + k) * Pow2(k) + RecordByte(f, j, k - 1)

\* the 8 bytes of a record, least significant byte first
RecordBytes(f) == [j \in 1..8 |-> RecordByte(f, j - 1, 7)]

Raw(y, mo0, d0, h, mi, s, t, hu, top) ==
    [year |-> y, month0 |-> mo0, day0 |-> d0, hour |-> h, minute |-> mi,
     second |-> s, temp |-> t, humidity |-> hu, top |-> top]

\* the records the model's Pico chooses from
ValidA    == Raw(2023, 11, 24, 23, 59, 58, 123, 456, 0)   \* 2023-12-25T23:59:58
BadDate   == Raw(2024, 1, 29, 12, 0, 0, 200, 500, 0)      \* 2024-02-30
BadTime   == Raw(2024, 5, 14, 24, 0, 0, 200, 500, 0)      \* 24:00:00
GapTime   == Raw(2024, 2, 30, 2, 30, 0, 511, 1023, 7)     \* 2024-03-31T02:30:00
FoldTime  == Raw(2024, 9, 26, 2, 30, 0, 200, 500, 0)      \* 2024-10-27T02:30:00
RecordPool == {ValidA, BadDate, BadTime, GapTime, FoldTime}

\* the declared counts: 0, 2, 262144, 262145
CountSamples == {<<0, 0, 0, 0>>, <<2, 0, 0, 0>>, <<0, 0, 4, 0>>, <<1, 0, 4, 0>>}

\* bytes of an incomplete record sent just before the Pico closes the stream
TailSamples == {<<>>, SubSeq(RecordBytes(ValidA), 1, 3)}

RECURSIVE Flatten(_)
Flatten(records) ==
    IF records = <<>> THEN <<>>
    ELSE [j \in 1..8 |-> RecordBytes(Head(records))[j]] \o Flatten(Tail(records))

RecordStreams == UNION {[1..k -> RecordPool] : k \in 0..MaxRecords}

\* everything the Pico may send: a full count, records, possibly a partial record;
\* or a stream that ends before the count is complete
Wires ==
    {c \o Flatten(rs) \o t : c \in CountSamples, rs \in RecordStreams, t \in TailSamples}
    \cup {<<>>, <<1, 0>>}

-----------------------------------------------------------------------------
(* The run: main(), from line 70.                                          *)

Clock(y, mo, d, h, mi, s) ==
    [year |-> y, month |-> mo, day |-> d, hour |-> h, minute |-> mi, second |-> s]

\* the clocks of the full run
RunClocks == {Clock(2024, 3, 2, 13, 45, 30)}

Init ==
    /\ pc = "config"
    /\ now = NoTime
    /\ zone \in Zones
    /\ closes = TRUE
    /\ wire = <<>>
    /\ inbound = <<>>
    /\ packed_now = <<>>
    /\ written = <<>>
    /\ measurement_count = 0
    /\ packed_measurement = Lit64(0)
    /\ measurements = <<>>
    /\ inserted = <<>>
    /\ exit = "running"
    /\ err = "none"
    /\ log = <<>>

\* `?` or `return Err(..)`: main returns, dropping whatever it owns
Fail(stage, events) ==
    /\ pc' = "done"
    /\ exit' = "Err"
    /\ err' = stage
    /\ log' = log \o events

\* what read_to_string finds at config.json
ConfigFiles == {"missing", "unreadable", "malformed", "valid"}

\* line 45 and lines 56-60: config.json is read (one await) and, when it could be
\* read, parsed; when there is none a default file is to be written
ReadConfig ==
    /\ pc = "config"
    /\ \E file \in ConfigFiles :
         IF file = "valid"
         THEN /\ pc' = "database"
              /\ UNCHANGED <<exit, err, log>>
         ELSE IF file = "missing"
         THEN /\ pc' = "write_default"
              /\ UNCHANGED <<exit, err, log>>
         ELSE IF file = "unreadable" THEN Fail("config_read", <<>>)
         ELSE Fail("config_parse", <<>>)
    /\ UNCHANGED <<now, zone, closes, packed_now, written, wire, inbound,
                   measurement_count, packed_measurement, measurements, inserted>>

\* lines 47-54: the default config.json is written (one await), over whatever is
\* there by then, and the run ends with the failure status
WriteDefaultConfig ==
    /\ pc = "write_default"
    /\ \E written_ok \in BOOLEAN :
         IF written_ok THEN /\ pc' = "done"
                            /\ exit' = "FAILURE"
                            /\ err' = "NoConfig"
                            /\ UNCHANGED log
         ELSE Fail("config_write", <<>>)
    /\ UNCHANGED <<now, zone, closes, packed_now, written, wire, inbound,
                   measurement_count, packed_measurement, measurements, inserted>>

\* lines 62-64: the database connection is made (one await) and its driver task is
\* spawned; that task only moves bytes of the connection and touches no state of
\* main
ConnectDatabase ==
    /\ pc = "database"
    /\ \E ok \in BOOLEAN :
         IF ok THEN /\ pc' = "prepare"
                    /\ UNCHANGED <<exit, err, log>>
         ELSE Fail("db_connect", <<>>)
    /\ UNCHANGED <<now, zone, closes, packed_now, written, wire, inbound,
                   measurement_count, packed_measurement, measurements, inserted>>

\* lines 66-68: the insert statement is prepared (one await)
PrepareStatement ==
    /\ pc = "prepare"
    /\ \E ok \in BOOLEAN :
         IF ok THEN /\ pc' = "now"
                    /\ UNCHANGED <<exit, err, log>>
         ELSE Fail("db_prepare", <<>>)
    /\ UNCHANGED <<now, zone, closes, packed_now, written, wire, inbound,
                   measurement_count, packed_measurement, measurements, inserted>>

\* line 70: Local::now()
Now(clocks) ==
    /\ pc = "now"
    /\ now' \in clocks
    /\ pc' = "pack"
    /\ UNCHANGED <<zone, closes, packed_now, written, wire, inbound, measurement_count,
                   packed_measurement, measurements, inserted, exit, err, log>>

\* lines 72-83
PackClock ==
    /\ pc = "pack"
    /\ packed_now' = PackNow(now)
    /\ pc' = "connect"
    /\ UNCHANGED <<now, zone, closes, written, wire, inbound, measurement_count,
                   packed_measurement, measurements, inserted, exit, err, log>>

\* lines 85-87: once the connection is accepted, what the Pico will send is fixed,
\* and whether it closes the stream afterwards
PicoConnects(wires, closings) ==
    /\ pc = "connect"
    /\ \E ok \in BOOLEAN :
         IF ok THEN /\ pc' = "write"
                    /\ log' = Append(log, "connect")
                    /\ wire' \in wires
                    /\ inbound' = wire'
                    /\ closes' \in closings
                    /\ UNCHANGED <<exit, err>>
         ELSE /\ Fail("connect", <<"connect_err">>)
              /\ UNCHANGED <<wire, inbound, closes>>
    /\ UNCHANGED <<now, zone, packed_now, written, measurement_count,
                   packed_measurement, measurements, inserted>>

\* lines 85-87, to a Pico that closes the stream when it has sent everything
Connect(wires) == PicoConnects(wires, {TRUE})

\* WriteClock going on after an incomplete write
WriteClockIgnoringError ==
    /\ pc = "write"
    /\ \E k \in 0..Len(packed_now) :
         /\ written' = SubSeq(packed_now, 1, k)
         /\ pc' = "count"
         /\ log' = Append(log, "write")
         /\ UNCHANGED <<exit, err>>
    /\ UNCHANGED <<now, zone, closes, packed_now, wire, inbound, measurement_count,
                   packed_measurement, measurements, inserted>>

\* lines 89-92: write_all either writes all 6 bytes or fails after k < 6 of them
WriteClock ==
    /\ pc = "write"
    /\ \E k \in 0..Len(packed_now) :
         /\ written' = SubSeq(packed_now, 1, k)
         /\ IF k = Len(packed_now)
            THEN /\ pc' = "count"
                 /\ log' = Append(log, "write")
                 /\ UNCHANGED <<exit, err>>
            ELSE Fail("write", <<"write_err", "drop">>)
    /\ UNCHANGED <<now, zone, closes, packed_now, wire, inbound, measurement_count,
                   packed_measurement, measurements, inserted>>

\* read_exact of n bytes ends with UnexpectedEof: the stream ends before n bytes.
\* While the Pico keeps the stream open (closes is false) such a read stays pending.
UnexpectedEof(buf, n) == Len(buf) < n

\* read_exact failing with an I/O error: the bytes received before the error, fewer
\* than the n asked for, have been consumed
ConsumedBeforeError(buf, n) ==
    {SubSeq(buf, k + 1, Len(buf)) : k \in 0..(IF Len(buf) < n THEN Len(buf) ELSE n - 1)}

\* lines 94-97
ReadCount ==
    /\ pc = "count"
    /\ \E ioerr \in BOOLEAN :
         IF ioerr
         THEN /\ Fail("count", <<"read_count_err", "drop">>)
              /\ inbound' \in ConsumedBeforeError(inbound, 4)
              /\ UNCHANGED measurement_count
         ELSE IF UnexpectedEof(inbound, 4)
         THEN /\ closes
              /\ Fail("count", <<"read_count_eof", "drop">>)
              /\ inbound' = <<>>
              /\ UNCHANGED measurement_count
         ELSE /\ measurement_count' = U32FromLeBytes(SubSeq(inbound, 1, 4))
              /\ inbound' = SubSeq(inbound, 5, Len(inbound))
              /\ pc' = "check"
              /\ log' = Append(log, "read_count")
              /\ UNCHANGED <<exit, err>>
    /\ UNCHANGED <<now, zone, closes, packed_now, written, wire, packed_measurement,
                   measurements, inserted>>

\* lines 103-108
CheckCount ==
    /\ pc = "check"
    /\ IF CountExceedsMaximum(measurement_count)
       THEN /\ pc' = "done"
            /\ exit' = "FAILURE"
            /\ err' = "CountExceedsMaximum"
            /\ log' = Append(log, "drop")
       ELSE /\ pc' = "read"
            /\ UNCHANGED <<exit, err, log>>
    /\ UNCHANGED <<now, zone, closes, packed_now, written, wire, inbound, measurement_count,
                   packed_measurement, measurements, inserted>>

\* ReadRecord giving up (as on a timeout) when the Pico sends nothing more and
\* keeps the stream open
ReadRecordTimingOut ==
    /\ pc = "read"
    /\ IF UnexpectedEof(inbound, 8)
       THEN /\ pc' = "shutdown"
            /\ inbound' = <<>>
            /\ log' = Append(log, "read_record_eof")
            /\ UNCHANGED packed_measurement
       ELSE /\ packed_measurement' = U64FromLeBytes(SubSeq(inbound, 1, 8))
            /\ inbound' = SubSeq(inbound, 9, Len(inbound))
            /\ pc' = "decode"
            /\ log' = Append(log, "read_record")
    /\ UNCHANGED <<now, zone, closes, packed_now, written, wire, measurement_count,
                   measurements, inserted, exit, err>>

\* the loop also ending once the declared count of records has been decoded
LoopEndsAtCount ==
    UnexpectedEof(inbound, 8) \/ Len(measurements) >= measurement_count

\* lines 112-114: the read failed with ErrorKind::UnexpectedEof, the loop breaks
LoopEnds == UnexpectedEof(inbound, 8)

\* lines 110-121
ReadRecord ==
    /\ pc = "read"
    /\ \E ioerr \in BOOLEAN :
         IF ioerr
         THEN /\ Fail("read", <<"read_record_err", "drop">>)
              /\ inbound' \in ConsumedBeforeError(inbound, 8)
              /\ UNCHANGED packed_measurement
         ELSE IF LoopEnds
         THEN /\ closes
              /\ pc' = "shutdown"
              /\ inbound' = <<>>
              /\ log' = Append(log, "read_record_eof")
              /\ UNCHANGED <<packed_measurement, exit, err>>
         ELSE /\ packed_measurement' = U64FromLeBytes(SubSeq(inbound, 1, 8))
              /\ inbound' = SubSeq(inbound, 9, Len(inbound))
              /\ pc' = "decode"
              /\ log' = Append(log, "read_record")
              /\ UNCHANGED <<exit, err>>
    /\ UNCHANGED <<now, zone, closes, packed_now, written, wire, measurement_count,
                   measurements, inserted>>

\* DecodeRecord dropping a record that fails to decode and reading on
DecodeRecordSkipping ==
    /\ pc = "decode"
    /\ LET r == Decode(zone, packed_measurement)
       IN measurements' = IF r.kind = "Ok" THEN Append(measurements, r.m) ELSE measurements
    /\ pc' = "read"
    /\ UNCHANGED <<now, zone, closes, packed_now, written, wire, inbound, measurement_count,
                   packed_measurement, inserted, exit, err, log>>

\* DecodeRecord handing each measurement to the sink as soon as it is decoded
DecodeRecordStreaming ==
    /\ pc = "decode"
    /\ LET r == Decode(zone, packed_measurement)
       IN IF r.kind = "Ok"
          THEN /\ measurements' = Append(measurements, r.m)
               /\ inserted' = Append(inserted, r.m)
               /\ log' = Append(log, "insert")
               /\ pc' = "read"
               /\ UNCHANGED <<exit, err>>
          ELSE /\ Fail(r.kind, <<"drop">>)
               /\ UNCHANGED <<measurements, inserted>>
    /\ UNCHANGED <<now, zone, closes, packed_now, written, wire, inbound,
                   measurement_count, packed_measurement>>

\* lines 123-148
DecodeRecord ==
    /\ pc = "decode"
    /\ LET r == Decode(zone, packed_measurement)
       IN IF r.kind = "Ok"
          THEN /\ measurements' = Append(measurements, r.m)
               /\ pc' = "read"
               /\ UNCHANGED <<exit, err, log>>
          ELSE /\ Fail(r.kind, <<"drop">>)
               /\ UNCHANGED measurements
    /\ UNCHANGED <<now, zone, closes, packed_now, written, wire, inbound, measurement_count,
                   packed_measurement, inserted>>

\* the connection dropped without the shutdown call
ShutdownSkipped ==
    /\ pc = "shutdown"
    /\ pc' = "insert"
    /\ log' = Append(log, "drop")
    /\ UNCHANGED <<now, zone, closes, packed_now, written, wire, inbound, measurement_count,
                   packed_measurement, measurements, inserted, exit, err>>

\* lines 151-156
Shutdown ==
    /\ pc = "shutdown"
    /\ \E ok \in BOOLEAN :
         IF ok THEN /\ pc' = "insert"
                    /\ log' = log \o <<"shutdown", "drop">>
                    /\ UNCHANGED <<exit, err>>
         ELSE Fail("shutdown", <<"shutdown_err", "drop">>)
    /\ UNCHANGED <<now, zone, closes, packed_now, written, wire, inbound, measurement_count,
                   packed_measurement, measurements, inserted>>

\* Insert trying a failed insert again (up to twice)
InsertRetrying ==
    /\ pc = "insert"
    /\ Len(inserted) < Len(measurements)
    /\ \E ok \in BOOLEAN :
         IF ok \/ Len(log) >= 16
         THEN /\ inserted' = Append(inserted, measurements[Len(inserted) + 1])
              /\ log' = Append(log, "insert")
         ELSE /\ log' = Append(log, "insert_err")
              /\ UNCHANGED inserted
    /\ UNCHANGED <<pc, now, zone, closes, packed_now, written, wire, inbound, measurement_count,
                   packed_measurement, measurements, exit, err>>

\* lines 158-171: one iteration of the for loop
Insert ==
    /\ pc = "insert"
    /\ Len(inserted) < Len(measurements)
    /\ \E ok \in BOOLEAN :
         IF ok THEN /\ inserted' = Append(inserted, measurements[Len(inserted) + 1])
                    /\ log' = Append(log, "insert")
                    /\ UNCHANGED <<pc, exit, err>>
         ELSE /\ Fail("insert", <<"insert_err">>)
              /\ UNCHANGED inserted
    /\ UNCHANGED <<now, zone, closes, packed_now, written, wire, inbound, measurement_count,
                   packed_measurement, measurements>>

\* line 173
Finish ==
    /\ pc = "insert"
    /\ Len(inserted) = Len(measurements)
    /\ pc' = "done"
    /\ exit' = "SUCCESS"
    /\ UNCHANGED <<now, zone, closes, packed_now, written, wire, inbound, measurement_count,
                   packed_measurement, measurements, inserted, err, log>>

Next ==
    \/ ReadConfig
    \/ WriteDefaultConfig
    \/ ConnectDatabase
    \/ PrepareStatement
    \/ Now(RunClocks)
    \/ PackClock
    \/ Connect(Wires)
    \/ WriteClock
    \/ ReadCount
    \/ CheckCount
    \/ ReadRecord
    \/ DecodeRecord
    \/ Shutdown
    \/ Insert
    \/ Finish

Spec == Init /\ [][Next]_vars

-----------------------------------------------------------------------------
(* The run with a Pico that may keep the stream open after its last byte,  *)
(* under the assumption that every I/O operation that can complete without *)
(* an I/O error eventually completes.                                      *)

LiveWires ==
    {c \o Flatten(rs) \o t :
        c \in {<<0, 0, 0, 0>>, <<2, 0, 0, 0>>},
        rs \in UNION {[1..k -> {ValidA, BadDate}] : k \in 0..MaxRecords},
        t \in TailSamples}
    \cup {<<>>, <<1, 0>>}

NextLive ==
    \/ ReadConfig
    \/ WriteDefaultConfig
    \/ ConnectDatabase
    \/ PrepareStatement
    \/ Now(RunClocks)
    \/ PackClock
    \/ PicoConnects(LiveWires, BOOLEAN)
    \/ WriteClock
    \/ ReadCount
    \/ CheckCount
    \/ ReadRecord
    \/ DecodeRecord
    \/ Shutdown
    \/ Insert
    \/ Finish

IoErrorEvents == {"connect_err", "write_err", "read_count_err", "read_record_err",
                  "shutdown_err", "insert_err"}

\* a step in which an I/O operation fails with an error other than end of stream
IoErrorStep == \E i \in (Len(log) + 1)..Len(log') : log'[i] \in IoErrorEvents

SpecLive == Init /\ [][NextLive]_vars /\ WF_vars(NextLive /\ ~IoErrorStep)

-----------------------------------------------------------------------------
(* The clock packet alone: PackClock applied to a wide range of clocks.    *)

ClockYears == {1970, 2023, 2024, 2047, 2048, 9999}
ClockSamples ==
    {Clock(y, mo, d, h, mi, s) :
        y \in ClockYears, mo \in 1..12, d \in {1, 2, 16, 17, 29, 30, 31},
        h \in {0, 13, 15, 16, 23}, mi \in {0, 3, 4, 45, 59}, s \in {0, 30, 59}}

InitEncode ==
    /\ pc = "config"
    /\ now = NoTime
    /\ zone = "UTC"
    /\ closes = TRUE
    /\ wire = <<>>
    /\ inbound = <<>>
    /\ packed_now = <<>>
    /\ written = <<>>
    /\ measurement_count = 0
    /\ packed_measurement = Lit64(0)
    /\ measurements = <<>>
    /\ inserted = <<>>
    /\ exit = "running"
    /\ err = "none"
    /\ log = <<>>

NextEncode ==
    \/ ReadConfig
    \/ WriteDefaultConfig
    \/ ConnectDatabase
    \/ PrepareStatement
    \/ Now({t \in ClockSamples : ValidYmd(t.year, t.month, t.day)})
    \/ PackClock

SpecEncode == InitEncode /\ [][NextEncode]_vars

-----------------------------------------------------------------------------
(* Decoding alone: the run has reached the record loop and the Pico sends  *)
(* one record out of a wide range.                                         *)

DecodeSamples ==
    {Raw(y, mo0, d0, h, mi, s, 123, 456, 0) :
        y \in {0, 1900, 2000, 2023, 2024, 2100, 65535},
        mo0 \in {0, 1, 2, 3, 9, 11, 12, 15}, d0 \in {0, 24, 26, 27, 28, 29, 30, 31},
        h \in {2, 23, 24, 31}, mi \in {30, 59, 60}, s \in {58, 63}}
    \cup {Raw(y, mo0, d0, h, mi, s, 123, 456, 0) :
        y \in {1900, 2024}, mo0 \in {2, 9}, d0 \in {24, 26, 27, 30},
        h \in {1, 2, 3}, mi \in {0, 59}, s \in {0, 59}}
    \cup {Raw(2023, mo0, 14, h, mi, s, 123, 456, 0) :
        mo0 \in {5, 6}, h \in {8, 13, 15}, mi \in {0, 21, 42}, s \in {4, 5, 7}}
    \cup {Raw(y, mo0, 24, 23, 59, 58, t, hu, top) :
        y \in {2023, 65535}, mo0 \in {11}, t \in {0, 1, 123, 255, 256, 511},
        hu \in {0, 1, 456, 511, 512, 1023}, top \in {0, 5, 7}}
    \cup {Raw(y, 1, 29, 12, 0, 0, 200, 500, 0) :
        y \in 0..(FebruaryYears - 1) \cup {1900, 2000, 2024, 2100, 4096, 32768, 64000, 65532, 65535}}

InitDecode ==
    /\ pc = "read"
    /\ now = Clock(2024, 3, 2, 13, 45, 30)
    /\ zone \in Zones
    /\ closes = TRUE
    /\ wire = <<1, 0, 0, 0>>
    /\ inbound = <<>>
    /\ packed_now = PackNow(now)
    /\ written = packed_now
    /\ measurement_count = 1
    /\ packed_measurement = Lit64(0)
    /\ measurements = <<>>
    /\ inserted = <<>>
    /\ exit = "running"
    /\ err = "none"
    /\ log = <<"connect", "write", "read_count">>

\* the Pico sends its first record
PicoSendsRecord ==
    /\ pc = "read"
    /\ Len(wire) = 4
    /\ \E f \in DecodeSamples :
         /\ wire' = wire \o [j \in 1..8 |-> RecordBytes(f)[j]]
         /\ inbound' = [j \in 1..8 |-> RecordBytes(f)[j]]
    /\ UNCHANGED <<pc, now, zone, closes, packed_now, written, measurement_count,
                   packed_measurement, measurements, inserted, exit, err, log>>

NextDecode ==
    \/ PicoSendsRecord
    \/ ReadRecord
    \/ DecodeRecord

SpecDecode == InitDecode /\ [][NextDecode]_vars

-----------------------------------------------------------------------------
(* Decoding repeated words: the run has reached the record loop and the    *)
(* Pico sends up to MaxRepeats records, among them the same word more than *)
(* once and words that differ in bits 61-63 only.                          *)

MaxRepeats == 3

\* the record f with bits 61-63 set to top
WithTop(f, top) == [f EXCEPT !.top = top]

RepeatPool == {WithTop(f, top) : f \in {ValidA, BadDate, BadTime, GapTime}, top \in {0, 5}}

RepeatStreams == UNION {[1..k -> RepeatPool] : k \in 1..MaxRepeats}

\* the Pico sends its records
PicoSendsRecords ==
    /\ pc = "read"
    /\ Len(wire) = 4
    /\ \E rs \in RepeatStreams :
         /\ wire' = wire \o Flatten(rs)
         /\ inbound' = Flatten(rs)
    /\ UNCHANGED <<pc, now, zone, closes, packed_now, written, measurement_count,
                   packed_measurement, measurements, inserted, exit, err, log>>

NextRepeat ==
    \/ PicoSendsRecords
    \/ ReadRecord
    \/ DecodeRecord

SpecRepeat == InitDecode /\ [][NextRepeat]_vars

-----------------------------------------------------------------------------
(* Reading the wire independently of the client: bit ranges of a byte      *)
(* stream, least significant bit of byte 1 first.                          *)

StreamBit(bytes, i) == (bytes[(i \div 8) + 1] \div (2 ^ (i % 8))) % 2

RECURSIVE StreamBits(_, _, _)
StreamBits(bytes, lo, hi) ==
    IF hi < lo THEN 0 ELSE StreamBit(bytes, lo) + 2 * StreamBits(bytes, lo + 1, hi)

RECURSIVE Count(_, _)
Count(seq, x) ==
    IF seq = <<>> THEN 0 ELSE (IF Head(seq) = x THEN 1 ELSE 0) + Count(Tail(seq), x)

\* number of 8-byte records the client has read so far
RecordsRead == Count(log, "read_record")

\* number of complete records the Pico sends after the count
RecordsSent == IF Len(wire) < 4 THEN 0 ELSE (Len(wire) - 4) \div 8

\* the bytes of the k-th record on the wire
WireRecord(k) == SubSeq(wire, 8 * k - 3, 8 * k + 4)

\* the k-th record has been read and decoding it has finished
Decoded(k) == k < RecordsRead \/ (k = RecordsRead /\ pc # "decode")

\* the Measurement the claims' bit layout gives for the 8 record bytes b
WireMeasurement(b) ==
    [time |-> [year |-> StreamBits(b, 26, 41), month |-> StreamBits(b, 22, 25) + 1,
               day |-> StreamBits(b, 17, 21) + 1, hour |-> StreamBits(b, 12, 16),
               minute |-> StreamBits(b, 6, 11), second |-> StreamBits(b, 0, 5)],
     temp |-> StreamBits(b, 42, 50),
     humidity |-> StreamBits(b, 51, 60)]

\* position of the first element of seq that is in S, 0 if there is none
RECURSIVE FirstIn(_, _, _)
FirstIn(seq, S, i) ==
    IF i > Len(seq) THEN 0 ELSE IF seq[i] \in S THEN i ELSE FirstIn(seq, S, i + 1)

First(seq, S) == FirstIn(seq, S, 1)

Happened(S) == First(log, S) > 0

RecordReadEvents == {"read_record", "read_record_eof", "read_record_err"}
CountReadEvents == {"read_count", "read_count_eof", "read_count_err"}
ShutdownEvents == {"shutdown", "shutdown_err"}
InsertEvents == {"insert", "insert_err"}

\* a legal calendar date, from the raw (zero-based) month and day of a record
LegalRawDate(y, mo0, d0) ==
    /\ mo0 < 12
    /\ d0 + 1 <= <<31, IF (y % 4 = 0 /\ y % 100 # 0) \/ y % 400 = 0 THEN 29 ELSE 28,
                   31, 30, 31, 30, 31, 31, 30, 31, 30, 31>>[mo0 + 1]

-----------------------------------------------------------------------------
(* Claims.                                                                 *)

\* C1: the record loop ends on the Pico's end of stream and never on the declared
\* count: when the loop has ended, every complete record the Pico sent has been read,
\* whatever the count; and a run that ends in success has handed the decoded
\* measurement of each record sent to the sink exactly once, in arrival order.
LoopEndsOnEofNotCount ==
    /\ Happened({"read_record_eof"}) =>
          /\ RecordsRead = RecordsSent
          /\ Len(measurements) = RecordsSent
    /\ exit = "SUCCESS" =>
          /\ Len(inserted) = RecordsSent
          /\ Count(log, "insert") = RecordsSent
          /\ \A k \in 1..RecordsSent : inserted[k] = WireMeasurement(WireRecord(k))

\* a run that declared 0 records, received 3 and inserted all 3
CountZeroThreeRecordsInserted ==
    /\ exit = "SUCCESS"
    /\ measurement_count = 0
    /\ RecordsSent = 3
    /\ Len(inserted) = 3

\* C2: a declared count above 262144 ends the run with the count-exceeded failure
\* status before any record read and with no insert; a count of 262144 or less
\* takes the run into the record read loop.
CountBoundEnforcement ==
    (Happened({"read_count"}) /\ pc # "check") =>
        IF measurement_count > 262144
        THEN /\ pc = "done"
             /\ exit = "FAILURE"
             /\ err = "CountExceedsMaximum"
             /\ ~Happened(RecordReadEvents)
             /\ ~Happened(InsertEvents)
             /\ inserted = <<>>
        ELSE pc = "read" \/ Happened(RecordReadEvents)

\* the count 262145 has been rejected
CountJustAboveMaximumRejected ==
    /\ measurement_count = 262145
    /\ exit = "FAILURE"
    /\ err = "CountExceedsMaximum"

\* C3: every measurement decoded has second = bits 0-5, minute = bits 6-11,
\* hour = bits 12-16, day = bits 17-21 plus 1, month = bits 22-25 plus 1,
\* year = bits 26-41, temp = bits 42-50 and humidity = bits 51-60 of its record;
\* the example record decodes to 2023-12-25T23:59:58, temp 123, humidity 456.
DecodeFieldExtraction ==
    \A k \in 1..Len(measurements) :
        /\ measurements[k] = WireMeasurement(WireRecord(k))
        /\ WireRecord(k) = <<250, 126, 241, 158, 31, 236, 65, 14>> =>
              measurements[k] = [time |-> Clock(2023, 12, 25, 23, 59, 58),
                                 temp |-> 123, humidity |-> 456]

\* the example record has been decoded
ExampleRecordDecoded ==
    /\ Len(wire) = 12
    /\ WireRecord(1) = <<250, 126, 241, 158, 31, 236, 65, 14>>
    /\ measurements = <<[time |-> Clock(2023, 12, 25, 23, 59, 58),
                         temp |-> 123, humidity |-> 456]>>

\* C4: decoding a record fails with InvalidDate exactly when (year, raw month + 1,
\* raw day + 1) is not a legal calendar date, and then no Measurement is produced
\* for it; February 30 is InvalidDate whatever the year.
InvalidCalendarRejection ==
    /\ \A k \in 1..RecordsRead :
          Decoded(k) =>
             LET b == WireRecord(k)
             IN (~LegalRawDate(StreamBits(b, 26, 41), StreamBits(b, 22, 25),
                               StreamBits(b, 17, 21)))
                <=> (/\ k = RecordsRead
                     /\ err = "InvalidDate"
                     /\ exit = "Err"
                     /\ Len(measurements) = k - 1)
    /\ \A k \in 1..RecordsRead :
          (/\ Decoded(k)
           /\ StreamBits(WireRecord(k), 22, 25) = 1
           /\ StreamBits(WireRecord(k), 17, 21) = 29) =>
              /\ err = "InvalidDate"
              /\ Len(measurements) = k - 1

\* the record for 2024-02-30 has been rejected
FebruaryThirtiethRejected ==
    /\ Len(wire) = 12
    /\ WireRecord(1) = <<0, 192, 122, 160, 31, 32, 163, 15>>
    /\ err = "InvalidDate"
    /\ measurements = <<>>

\* C5: the clock packet, read as a 48-bit little-endian bit stream, holds the second
\* in bits 0-5, the minute in bits 6-11, the hour in bits 12-16, the weekday
\* (0 = Sunday) in bits 17-19, the zero-based day in bits 20-24 and the zero-based
\* month in bits 25-28, each recovered exactly.
ClockPacketLayout ==
    (now # NoTime /\ pc # "pack") =>
        /\ Len(packed_now) = 6
        /\ StreamBits(packed_now, 0, 5) = now.second
        /\ StreamBits(packed_now, 6, 11) = now.minute
        /\ StreamBits(packed_now, 12, 16) = now.hour
        /\ StreamBits(packed_now, 17, 19) = NumberFromSunday(now.year, now.month, now.day) - 1
        /\ StreamBits(packed_now, 20, 24) = now.day - 1
        /\ StreamBits(packed_now, 25, 28) = now.month - 1

\* Saturday 2024-03-02 13:45:30 has been packed
ClockPacked ==
    /\ pc = "connect"
    /\ now = Clock(2024, 3, 2, 13, 45, 30)
    /\ packed_now = <<94, 219, 28, 4, 253, 0>>

\* C6: a stream that ends after 1 to 7 bytes of a record never ends the record loop
\* normally: the run does not go on to the shutdown and does not end in success.
ShortReadIsFatal ==
    (Len(wire) >= 4 /\ (Len(wire) - 4) % 8 # 0) =>
        /\ ~Happened({"read_record_eof"})
        /\ pc \notin {"shutdown", "insert"}
        /\ exit # "SUCCESS"

\* C7: when the record loop has ended with end of stream and the connection has been
\* released, the shutdown was called after the end of stream and before the release;
\* a failed shutdown ends the run in failure with nothing inserted.
ShutdownAfterEofBeforeRelease ==
    /\ (Happened({"read_record_eof"}) /\ Happened({"drop"})) =>
          /\ First(log, {"read_record_eof"}) < First(log, ShutdownEvents)
          /\ First(log, ShutdownEvents) < First(log, {"drop"})
    /\ Happened(InsertEvents) => Happened({"shutdown"})
    /\ Happened({"shutdown_err"}) =>
          /\ pc = "done"
          /\ exit = "Err"
          /\ err = "shutdown"
          /\ inserted = <<>>
          /\ ~Happened(InsertEvents)

\* the shutdown failed after two measurements had been decoded
ShutdownFailedWithMeasurements ==
    /\ Happened({"shutdown_err"})
    /\ Len(measurements) = 2
    /\ exit = "Err"

\* C8: the measurements are inserted one at a time in arrival order; when the insert
\* of the k-th fails, exactly the first k-1 have been inserted, nothing is attempted
\* after the failure, the failed insert is not tried again and the run has failed.
SinkOrderAndAbort ==
    /\ Len(inserted) <= Len(measurements)
    /\ inserted = SubSeq(measurements, 1, Len(inserted))
    /\ \A k \in 1..Len(inserted) : inserted[k] = WireMeasurement(WireRecord(k))
    /\ Count(log, "insert") = Len(inserted)
    /\ Count(log, "insert_err") <= 1
    /\ Happened({"insert_err"}) =>
          /\ log[Len(log)] = "insert_err"
          /\ pc = "done"
          /\ exit = "Err"
          /\ err = "insert"
          /\ Len(inserted) < Len(measurements)

\* the second of three inserts failed
SecondInsertFailed ==
    /\ err = "insert"
    /\ Len(measurements) = 3
    /\ Len(inserted) = 1

\* C9: a record that fails to decode (InvalidDate, InvalidTime, AmbiguousTime in a
\* fold, ImpossibleTime in a gap) ends the run in failure at once: it is the last
\* record read, nothing is read after it, nothing is inserted, no success; while no
\* record has failed to decode, every record decoded so far is in measurements.
NoSkipOnBadRecord ==
    /\ (RecordsRead > 0 /\ pc # "decode") =>
          LET kind == Decode(zone, U64FromLeBytes(WireRecord(RecordsRead))).kind
          IN kind # "Ok" => err = kind
    /\ err \notin DecodeErrors =>
          Len(measurements) = RecordsRead - (IF pc = "decode" THEN 1 ELSE 0)
    /\ err \in DecodeErrors =>
          /\ pc = "done"
          /\ exit = "Err"
          /\ log[Len(log)] = "drop"
          /\ log[Len(log) - 1] = "read_record"
          /\ Len(measurements) = RecordsRead - 1
          /\ Len(inbound) = Len(wire) - 4 - 8 * RecordsRead
          /\ inserted = <<>>
          /\ ~Happened(ShutdownEvents \cup InsertEvents)

\* the second record fell into the fold and a third record was left unread
FoldRecordAbortsRun ==
    /\ err = "AmbiguousTime"
    /\ zone = EuRule
    /\ RecordsRead = 2
    /\ RecordsSent = 3
    /\ Len(inbound) >= 8

\* C10: the clock packet is fully written before the count is read, the count is
\* read and found within the maximum before the first record read, the shutdown
\* comes only after the record loop has ended; a failed clock write or a failed or
\* short count read ends the run in failure with no later step performed.
ProtocolStepOrder ==
    /\ Happened(CountReadEvents) =>
          /\ Happened({"write"})
          /\ First(log, {"write"}) < First(log, CountReadEvents)
          /\ Len(packed_now) = 6
          /\ written = packed_now
    /\ Happened(RecordReadEvents) =>
          /\ Happened({"read_count"})
          /\ First(log, {"read_count"}) < First(log, RecordReadEvents)
          /\ measurement_count <= 262144
    /\ Happened(ShutdownEvents) =>
          /\ Happened({"read_record_eof"})
          /\ First(log, {"read_record_eof"}) < First(log, ShutdownEvents)
          /\ \A i \in 1..Len(log) :
                log[i] \in RecordReadEvents => i < First(log, ShutdownEvents)
    /\ (Happened({"write_err"}) \/ Happened({"read_count_err", "read_count_eof"})) =>
          /\ pc = "done"
          /\ exit = "Err"
          /\ err = (IF Happened({"write_err"}) THEN "write" ELSE "count")
          /\ ~Happened(RecordReadEvents \cup ShutdownEvents \cup InsertEvents)
          /\ Happened({"write_err"}) => ~Happened(CountReadEvents)
          /\ inserted = <<>>

\* the stream ended after 2 of the 4 count bytes
CountReadHitEndOfStream ==
    /\ Len(wire) = 2
    /\ Happened({"read_count_eof"})
    /\ err = "count"
    /\ exit = "Err"

\* the raw fields of the last record read
LastRecord == WireRecord(RecordsRead)
LastDateLegal ==
    LegalRawDate(StreamBits(LastRecord, 26, 41), StreamBits(LastRecord, 22, 25),
                 StreamBits(LastRecord, 17, 21))
LastTimeInRange ==
    /\ StreamBits(LastRecord, 12, 16) <= 23
    /\ StreamBits(LastRecord, 6, 11) <= 59
    /\ StreamBits(LastRecord, 0, 5) <= 59

\* the last record read has been decoded
LastDecoded == RecordsRead > 0 /\ pc # "decode"

\* a u64 with bits 61-63 cleared
ClearTop(w) == [i \in 0..63 |-> IF i <= 60 THEN w[i] ELSE 0]

\* two records agree on bits 0-60
SameLow61(a, b) ==
    /\ \A j \in 1..7 : a[j] = b[j]
    /\ a[8] % 32 = b[8] % 32

\* C11: decoding is a pure function of bits 0-60 of the word.  The outcome of
\* decoding a record is the outcome for the same word with bits 61-63 cleared, so
\* the top bits influence neither the Measurement nor the error; two records of one
\* run that agree on bits 0-60 give equal Measurements, wherever they stand in the
\* stream and whatever preceded them; and a record that fails to decode agrees on
\* bits 0-60 with no record decoded before it.
DecodeIgnoresTopBits ==
    /\ LastDecoded =>
          LET r == Decode(zone, ClearTop(U64FromLeBytes(LastRecord)))
          IN IF r.kind = "Ok"
             THEN /\ Len(measurements) = RecordsRead
                  /\ measurements[RecordsRead] = r.m
                  /\ err \notin DecodeErrors
             ELSE /\ err = r.kind
                  /\ Len(measurements) = RecordsRead - 1
    /\ \A j, k \in 1..Len(measurements) :
          SameLow61(WireRecord(j), WireRecord(k)) => measurements[j] = measurements[k]
    /\ (LastDecoded /\ err \in DecodeErrors) =>
          \A j \in 1..(RecordsRead - 1) : ~SameLow61(WireRecord(j), LastRecord)

\* one word was decoded twice, with bits 61-63 clear and then set to 5, giving equal
\* Measurements, and then a record with bits 61-63 set to 5 was rejected for its date
RepeatedWordThenTopBitsError ==
    /\ RecordsRead = 3
    /\ SameLow61(WireRecord(1), WireRecord(2))
    /\ WireRecord(1)[8] \div 32 = 0
    /\ WireRecord(2)[8] \div 32 = 5
    /\ Len(measurements) = 2
    /\ measurements[1] = measurements[2]
    /\ LastRecord[8] \div 32 = 5
    /\ err = "InvalidDate"

\* C12: the value read back from bits 29-47 of the clock packet is the year, and
\* byte 5 carries the year bits above bit 10.
ClockYearInBits29To47 ==
    (now # NoTime /\ pc # "pack") =>
        /\ StreamBits(packed_now, 29, 47) = now.year
        /\ packed_now[6] = now.year \div 2048

\* C14 as claimed: a record whose date is legal never ends with InvalidTime.
NoInvalidTimeForLegalDate ==
    (LastDecoded /\ LastDateLegal) => err # "InvalidTime"

\* C14: a record whose date is legal and whose hour is at most 23 and minute and
\* second at most 59 never ends with InvalidTime; a record whose date is legal and
\* whose hour field holds 24..31 or minute or second field 60..63 does.
InvalidTimeOnlyOutOfRange ==
    (LastDecoded /\ LastDateLegal) =>
        IF LastTimeInRange THEN err # "InvalidTime"
        ELSE err = "InvalidTime" /\ Len(measurements) = RecordsRead - 1

\* 2024-01-01T23:59:58, the largest hour and minute, has been decoded
LatestTimeOfDayDecoded ==
    /\ LastDecoded
    /\ measurements = <<[time |-> Clock(2024, 1, 1, 23, 59, 58),
                         temp |-> 123, humidity |-> 456]>>

\* C15: the date is validated before the time of day and both before the zone: an
\* illegal date gives InvalidDate whatever the time fields; InvalidTime is the
\* outcome exactly when the date is legal and hour > 23 or minute > 59 or
\* second > 59; AmbiguousTime and ImpossibleTime need a legal date and time.
ValidationOrder ==
    LastDecoded =>
        /\ ~LastDateLegal => err = "InvalidDate"
        /\ err = "InvalidTime" <=> (LastDateLegal /\ ~LastTimeInRange)
        /\ err \in {"AmbiguousTime", "ImpossibleTime"} =>
              (LastDateLegal /\ LastTimeInRange)

\* month 13 at 24:60 has been rejected as InvalidDate
IllegalDateAndTimeRejected ==
    /\ LastDecoded
    /\ StreamBits(LastRecord, 22, 25) = 12
    /\ StreamBits(LastRecord, 12, 16) = 24
    /\ StreamBits(LastRecord, 6, 11) = 60
    /\ err = "InvalidDate"

\* C16: when the declared count exceeds the maximum, the shutdown is called before
\* the connection is released and the run ends with the failure status.
ShutdownOnExcessiveCount ==
    err = "CountExceedsMaximum" =>
        /\ exit = "FAILURE"
        /\ Happened({"shutdown"})
        /\ First(log, {"shutdown"}) < First(log, {"drop"})

\* C18: nothing is inserted before the record stream has ended with end of stream
\* and the shutdown has succeeded; a run that fails in a record read, a decode, the
\* count check or the shutdown has inserted nothing, whatever it had decoded.
AllOrNothing ==
    /\ Happened(InsertEvents) =>
          /\ Happened({"read_record_eof"})
          /\ Happened({"shutdown"})
          /\ First(log, {"read_record_eof"}) < First(log, {"shutdown"})
          /\ First(log, {"shutdown"}) < First(log, InsertEvents)
    /\ ~Happened(InsertEvents) => inserted = <<>>
    /\ (err \in DecodeErrors \cup {"count", "read", "CountExceedsMaximum", "shutdown"}) =>
          /\ inserted = <<>>
          /\ ~Happened(InsertEvents)
          /\ exit \in {"Err", "FAILURE"}

\* a record read failed after two records had been decoded
ReadFailedAfterTwoDecoded ==
    /\ err = "read"
    /\ Len(measurements) = 2
    /\ inserted = <<>>

\* C19: every decoded measurement, and every measurement handed to the sink, has
\* temp in 0..511 and humidity in 0..1023.
ReadingsInRange ==
    /\ \A k \in 1..Len(measurements) :
          /\ measurements[k].temp \in 0..511
          /\ measurements[k].humidity \in 0..1023
    /\ \A k \in 1..Len(inserted) :
          /\ inserted[k].temp \in 0..511
          /\ inserted[k].humidity \in 0..1023

\* the largest readings, from a record with bits 61-63 set, have reached the sink
LargestReadingsInserted ==
    \E k \in 1..Len(inserted) :
        /\ inserted[k].temp = 511
        /\ inserted[k].humidity = 1023
        /\ WireRecord(k)[8] \div 32 = 7

\* C17: once connected to a Pico that closes the stream after finitely many bytes,
\* the run eventually ends with a status; with a Pico that keeps the stream open
\* the record loop never ends normally, not even when the declared count of records
\* has been received: from a pending read the only possible step is an I/O error.
RunTerminatesOnlyOnClose ==
    /\ (closes /\ pc = "write") ~> (pc = "done" /\ exit # "running")
    /\ [](~closes => /\ ~Happened({"read_record_eof"})
                     /\ pc \notin {"shutdown", "insert"}
                     /\ exit # "SUCCESS")
    /\ [][(~closes /\ pc = "read" /\ Len(inbound) < 8)
             => (pc' = "done" /\ exit' = "Err" /\ err' = "read")]_vars

\* the declared 2 records have been decoded and the read of a third is pending
PendingReadAfterDeclaredCount ==
    /\ ~closes
    /\ pc = "read"
    /\ measurement_count = 2
    /\ Len(measurements) = 2
    /\ inbound = <<>>

====
